---- MODULE Spec2Model ----
(***************************************************************************)
(* Model of GenericSdkVisitor                                              *)
(* (packages/plugins/typescript/generic-sdk/src/visitor.ts).               *)
(*                                                                         *)
(* The visitor is constructed from a configuration, accumulates one record *)
(* per visited operation (buildOperation) and renders the SDK source text  *)
(* on demand (the sdkContent getter).  Text is modelled as TLA+ strings;   *)
(* a multi-line template is a sequence of lines, a line a sequence of      *)
(* tokens, so that the pieces a template interpolates stay addressable.    *)
(***************************************************************************)
EXTENDS Naturals, Sequences, FiniteSets, TLC

VARIABLES rawConfig, config, _additionalImports, _externalImportPrefix,
          _operationsToInclude, call, result

vars == <<rawConfig, config, _additionalImports, _externalImportPrefix,
          _operationsToInclude, call, result>>

(***************************************************************************)
(* Bounds of the model.                                                    *)
(***************************************************************************)
\* most operations one visitor accumulates
MaxOps == 2
\* most directives on one generated operation node
MaxDirectives == 2
\* most variable definitions on one generated operation node
MaxVars == 2

(***************************************************************************)
(* Optional values: undefined / null is the empty tuple, a present value v *)
(* is <<v>>.                                                               *)
(***************************************************************************)
None == <<>>

Some(v) == <<v>>

IsSome(o) == o # <<>>

Val(o) == o[1]

(***************************************************************************)
(* Strings.                                                                *)
(***************************************************************************)
\* the concatenation of a sequence of strings (a template's pieces)
RECURSIVE Concat(_)
Concat(toks) ==
    IF toks = <<>> THEN "" ELSE Head(toks) \o Concat(Tail(toks))

\* Array.prototype.join
RECURSIVE Join(_, _)
Join(strs, sep) ==
    IF strs = <<>> THEN ""
    ELSE IF Len(strs) = 1 THEN strs[1]
    ELSE strs[1] \o sep \o Join(Tail(strs), sep)

\* all sequences over S of length at most n
SeqsUpTo(S, n) == UNION {[1..k -> S] : k \in 0..n}

(***************************************************************************)
(* GraphQL AST (the part of OperationDefinitionNode the visitor reads).    *)
(*   node.operation            "query" | "mutation" | "subscription"       *)
(*   node.name                 None | Some(name value)                     *)
(*   node.directives           None | Some(sequence of [name])             *)
(*   node.variableDefinitions  None | Some(sequence of variable defs)      *)
(*   node.selectionSet         sequence of field names                     *)
(* A variable definition is [variable, type |-> [kind, name],              *)
(* defaultValue |-> None | Some(printed literal)].                         *)
(***************************************************************************)
NON_NULL_TYPE == "NonNullType"

NAMED_TYPE == "NamedType"

LIST_TYPE == "ListType"

OperationKinds == {"query", "mutation", "subscription"}

\* graphql print(): a type reference
printType(t) ==
    IF t.kind = NON_NULL_TYPE THEN t.name \o "!"
    ELSE IF t.kind = LIST_TYPE THEN "[" \o t.name \o "]"
    ELSE t.name

\* graphql print(): VariableDefinition
printVariableDefinition(v) ==
    "$" \o v.variable \o ": " \o printType(v.type)
        \o (IF IsSome(v.defaultValue) THEN " = " \o Val(v.defaultValue) ELSE "")

\* graphql print(): Directive (without arguments)
printDirective(d) == "@" \o d.name

\* the printer's join(): drops empty strings, then joins
joinNonEmpty(strs, sep) == Join(SelectSeq(strs, LAMBDA x : x # ""), sep)

\* the printer's wrap(): start + s + end unless s is empty
wrap(start, s, end) == IF s = "" THEN "" ELSE start \o s \o end

\* the printer's block(): selections, one per line, indented by two spaces
block(selections) ==
    wrap("{\n", Join([i \in DOMAIN selections |-> "  " \o selections[i]], "\n"), "\n}")

\* graphql print(): OperationDefinition
print(node) ==
    LET vds == IF IsSome(node.variableDefinitions)
               THEN Val(node.variableDefinitions) ELSE <<>>
        dirs == IF IsSome(node.directives) THEN Val(node.directives) ELSE <<>>
        varDefs == wrap("(",
                        joinNonEmpty([i \in DOMAIN vds |->
                                         printVariableDefinition(vds[i])], ", "),
                        ")")
        nm == IF IsSome(node.name) THEN Val(node.name) ELSE ""
        prefix == joinNonEmpty(
                      <<node.operation,
                        joinNonEmpty(<<nm, varDefs>>, ""),
                        joinNonEmpty([i \in DOMAIN dirs |-> printDirective(dirs[i])], " ")>>,
                      " ")
    IN  (IF prefix = "query" THEN "" ELSE prefix \o " ") \o block(node.selectionSet)

\* isStreamOperation without the test of the operation kind: any operation
\* carrying @live is a stream
isStreamOperationAnyKind(operationAST) ==
    IF operationAST.operation = "subscription" THEN TRUE
    ELSE IF /\ IsSome(operationAST.directives)
            /\ \E i \in DOMAIN Val(operationAST.directives) :
                   Val(operationAST.directives)[i].name = "live"
         THEN TRUE
    ELSE FALSE

(***************************************************************************)
(* isStreamOperation (visitor.ts 18-29)                                    *)
(***************************************************************************)
isStreamOperation(operationAST) ==
    IF operationAST.operation = "subscription" THEN TRUE
    ELSE IF /\ operationAST.operation = "query"
            /\ IsSome(operationAST.directives)
            /\ \E i \in DOMAIN Val(operationAST.directives) :
                   Val(operationAST.directives)[i].name = "live"
         THEN TRUE
    ELSE FALSE

(***************************************************************************)
(* Configuration.                                                          *)
(*   rawConfig.usingObservableFrom   None | Some(import statement)         *)
(*   rawConfig.rawRequest            None | Some(boolean)                  *)
(* documentMode, importOperationTypesFrom and useTypeImports are parsed by *)
(* the base visitor and reach this class in this.config.                   *)
(***************************************************************************)
DocumentMode_string == "string"

DocumentMode_external == "external"

DocumentMode_graphQLTag == "graphQLTag"

DocumentModes == {DocumentMode_string, DocumentMode_external, DocumentMode_graphQLTag}

ObservableImport == "import Observable from 'zen-observable';"

RawConfigs ==
    [usingObservableFrom : {None, Some(""), Some(ObservableImport)},
     rawRequest : {None, Some(TRUE), Some(FALSE)},
     documentMode : DocumentModes,
     importOperationTypesFrom : {None, Some("Types")},
     useTypeImports : BOOLEAN]

\* getConfigValue (visitor-plugin-common): the default for null / undefined
getConfigValue(value, defaultValue) ==
    IF IsSome(value) THEN Val(value) ELSE defaultValue

\* JavaScript truthiness of an optional string
Truthy(s) == IsSome(s) /\ Val(s) # ""

\* super(schema, fragments, rawConfig, {usingObservableFrom, rawRequest})
parseConfig(raw) ==
    [usingObservableFrom |-> raw.usingObservableFrom,
     rawRequest |-> getConfigValue(raw.rawRequest, FALSE),
     documentMode |-> raw.documentMode,
     importOperationTypesFrom |-> raw.importOperationTypesFrom,
     useTypeImports |-> raw.useTypeImports]

\* constructorImports without the string-mode branch for rawRequest
constructorImportsNoElse(cfg) ==
    LET importType == IF cfg.useTypeImports THEN "import type" ELSE "import"
    IN  (IF Truthy(cfg.usingObservableFrom)
         THEN <<Val(cfg.usingObservableFrom)>> ELSE <<>>)
        \o (IF cfg.documentMode # DocumentMode_string
            THEN <<Concat(<<importType, " { DocumentNode",
                            IF cfg.rawRequest THEN ", ExecutionResult" ELSE "",
                            " } from 'graphql';">>)>>
            ELSE <<>>)

\* the imports the constructor pushes, in order (visitor.ts 56-68)
constructorImports(cfg) ==
    LET importType == IF cfg.useTypeImports THEN "import type" ELSE "import"
    IN  (IF Truthy(cfg.usingObservableFrom)
         THEN <<Val(cfg.usingObservableFrom)>> ELSE <<>>)
        \o (IF cfg.documentMode # DocumentMode_string
            THEN <<Concat(<<importType, " { DocumentNode",
                            IF cfg.rawRequest THEN ", ExecutionResult" ELSE "",
                            " } from 'graphql';">>)>>
            ELSE IF cfg.rawRequest
            THEN <<Concat(<<importType, " { ExecutionResult } from 'graphql';">>)>>
            ELSE <<>>)

\* this._externalImportPrefix (visitor.ts 70-72)
constructorPrefix(cfg) ==
    IF Truthy(cfg.importOperationTypesFrom)
    THEN Val(cfg.importOperationTypesFrom) \o "."
    ELSE ""

(***************************************************************************)
(* Rendering (visitor.ts 102-173)                                          *)
(***************************************************************************)
\* getDocumentNodeVariable qualifying in every mode but string
getDocumentNodeVariableNotString(cfg, documentVariableName) ==
    IF cfg.documentMode # DocumentMode_string
    THEN "Operations." \o documentVariableName
    ELSE documentVariableName

getDocumentNodeVariable(cfg, documentVariableName) ==
    IF cfg.documentMode = DocumentMode_external
    THEN "Operations." \o documentVariableName
    ELSE documentVariableName

\* indentMultiline (visitor-plugin-common): count times two spaces before
\* every line
RECURSIVE indentation(_)
indentation(count) == IF count = 0 THEN "" ELSE "  " \o indentation(count - 1)

indentMultiline(lines, count) ==
    [i \in DOMAIN lines |-> <<indentation(count)>> \o lines[i]]

\* a sequence of lines (of tokens) as one string
linesText(lines) == Join([i \in DOMAIN lines |-> Concat(lines[i])], "\n")

\* optionalVariables with some() in place of every()
optionalVariablesSome(node) ==
    \/ ~IsSome(node.variableDefinitions)
    \/ Len(Val(node.variableDefinitions)) = 0
    \/ \E i \in DOMAIN Val(node.variableDefinitions) :
           LET v == Val(node.variableDefinitions)[i]
           IN  v.type.kind # NON_NULL_TYPE \/ IsSome(v.defaultValue)

\* optionalVariables of one record (visitor.ts 112-115)
optionalVariables(node) ==
    \/ ~IsSome(node.variableDefinitions)
    \/ Len(Val(node.variableDefinitions)) = 0
    \/ \A i \in DOMAIN Val(node.variableDefinitions) :
           LET v == Val(node.variableDefinitions)[i]
           IN  v.type.kind # NON_NULL_TYPE \/ IsSome(v.defaultValue)

\* actionConfig with the two stream shapes exchanged
actionConfigSwapped(cfg, o) ==
    LET usingObservable == Truthy(cfg.usingObservableFrom)
    IN  [operationName |-> Val(o.node.name),
         optionalVariables |-> optionalVariables(o.node),
         operationVariablesTypes |-> o.operationVariablesTypes,
         operationResultType |-> o.operationResultType,
         docVarName |-> getDocumentNodeVariable(cfg, o.documentVariableName),
         returnType |-> IF isStreamOperation(o.node)
                        THEN (IF usingObservable THEN "AsyncIterable" ELSE "Observable")
                        ELSE "Promise",
         resultData |-> IF cfg.rawRequest
                        THEN Concat(<<"ExecutionResult<", o.operationResultType, ", E>">>)
                        ELSE o.operationResultType]

\* one element of allPossibleActionsConfig (visitor.ts 110-135)
actionConfig(cfg, o) ==
    LET usingObservable == Truthy(cfg.usingObservableFrom)
    IN  [operationName |-> Val(o.node.name),
         optionalVariables |-> optionalVariables(o.node),
         operationVariablesTypes |-> o.operationVariablesTypes,
         operationResultType |-> o.operationResultType,
         docVarName |-> getDocumentNodeVariable(cfg, o.documentVariableName),
         returnType |-> IF isStreamOperation(o.node)
                        THEN (IF usingObservable THEN "Observable" ELSE "AsyncIterable")
                        ELSE "Promise",
         resultData |-> IF cfg.rawRequest
                        THEN Concat(<<"ExecutionResult<", o.operationResultType, ", E>">>)
                        ELSE o.operationResultType]

allPossibleActionsConfig(cfg, ops) ==
    [i \in DOMAIN ops |-> actionConfig(cfg, ops[i])]

\* the free-standing function of one operation, before indentation
\* (visitor.ts 139-145)
actionLines(o) ==
    << <<"export function ", o.operationName,
         "<C, E>(requester: Requester<C, E>, variables",
         IF o.optionalVariables THEN "?" ELSE "",
         ": ", o.operationVariablesTypes, ", options?: C): ",
         o.returnType, "<", o.resultData, "> {">>,
       <<"  return requester<", o.operationResultType, ", ",
         o.operationVariablesTypes, ">(", o.docVarName,
         ", variables, options) as ", o.returnType, "<", o.resultData, ">;">>,
       <<"}">> >>

\* allPossibleActions (visitor.ts 137-147)
allPossibleActions(acs) ==
    [i \in DOMAIN acs |-> linesText(indentMultiline(actionLines(acs[i]), 2))]

\* the factory method of one operation (visitor.ts 150-154)
implLines(o) ==
    << <<o.operationName, "(variables",
         IF o.optionalVariables THEN "?" ELSE "",
         ": ", o.operationVariablesTypes, ", options?: C): ",
         o.returnType, "<", o.resultData, "> {">>,
       <<"  return ", o.operationName, "(requester, variables, options) as ",
         o.returnType, "<", o.resultData, ">;">>,
       <<"}">> >>

\* allPossibleActionsImpl (visitor.ts 149-155)
allPossibleActionsImpl(acs) ==
    [i \in DOMAIN acs |-> linesText(implLines(acs[i]))]

\* requesterLine whose promise alternative ignores rawRequest
requesterLineBarePromise(cfg) ==
    LET usingObservable == Truthy(cfg.usingObservableFrom)
        documentNodeType ==
            IF cfg.documentMode = DocumentMode_string THEN "string" ELSE "DocumentNode"
        resultData == IF cfg.rawRequest THEN "ExecutionResult<R, E>" ELSE "R"
    IN  <<"export type Requester<C = {}, E = unknown> = <R, V>(doc: ",
          documentNodeType, ", vars?: V, options?: C) => ",
          "Promise", "<", "R", "> | ",
          IF usingObservable THEN "Observable" ELSE "AsyncIterable",
          "<", resultData, ">">>

\* the Requester type's line (visitor.ts 157-166)
requesterLine(cfg) ==
    LET usingObservable == Truthy(cfg.usingObservableFrom)
        documentNodeType ==
            IF cfg.documentMode = DocumentMode_string THEN "string" ELSE "DocumentNode"
        resultData == IF cfg.rawRequest THEN "ExecutionResult<R, E>" ELSE "R"
    IN  <<"export type Requester<C = {}, E = unknown> = <R, V>(doc: ",
          documentNodeType, ", vars?: V, options?: C) => ",
          "Promise", "<", resultData, "> | ",
          IF usingObservable THEN "Observable" ELSE "AsyncIterable",
          "<", resultData, ">">>

\* the value of the sdkContent getter (visitor.ts 108-173); reading
\* o.node.name.value of a record without a name is a TypeError
sdkContent(cfg, ops) ==
    IF \E i \in DOMAIN ops : ~IsSome(ops[i].node.name)
    THEN [kind |-> "error", value |-> "TypeError"]
    ELSE LET acs == allPossibleActionsConfig(cfg, ops)
         IN  [kind |-> "text",
              value |-> Concat(<<
                  "\n",
                  Join(allPossibleActions(acs), "\n"),
                  "\n",
                  Concat(requesterLine(cfg)),
                  "\nexport function getSdk<C, E>(requester: Requester<C, E>) {\n",
                  "  return {\n",
                  Join(allPossibleActionsImpl(acs), ",\n"),
                  "\n  };\n}\n",
                  "export type Sdk = ReturnType<typeof getSdk>;">>)]

\* buildOperation pushing the record before it tests the name
buildOperationPushFirst(prefix, ops, v) ==
    LET pushed == Append(ops,
                         [node |-> v.node,
                          documentVariableName |-> v.documentVariableName,
                          operationType |-> v.operationType,
                          operationResultType |-> prefix \o v.operationResultType,
                          operationVariablesTypes |-> prefix \o v.operationVariablesTypes])
    IN  IF ~IsSome(v.node.name)
        THEN [ops |-> pushed,
              result |-> [kind |-> "error",
                          value |-> "Plugin 'generic-sdk' cannot generate SDK for unnamed operation.\n\n"
                                        \o print(v.node)]]
        ELSE [ops |-> pushed, result |-> [kind |-> "null", value |-> ""]]

\* buildOperation without the test of the name
buildOperationNoCheck(prefix, ops, v) ==
    [ops |-> Append(ops,
                    [node |-> v.node,
                     documentVariableName |-> v.documentVariableName,
                     operationType |-> v.operationType,
                     operationResultType |-> prefix \o v.operationResultType,
                     operationVariablesTypes |-> prefix \o v.operationVariablesTypes]),
     result |-> [kind |-> "null", value |-> ""]]

\* buildOperation keeping one record per operation name: a second visit of
\* a name replaces the first record
buildOperationByName(prefix, ops, v) ==
    LET rec == [node |-> v.node,
                documentVariableName |-> v.documentVariableName,
                operationType |-> v.operationType,
                operationResultType |-> prefix \o v.operationResultType,
                operationVariablesTypes |-> prefix \o v.operationVariablesTypes]
    IN  IF ~IsSome(v.node.name)
        THEN [ops |-> ops,
              result |-> [kind |-> "error",
                          value |-> "Plugin 'generic-sdk' cannot generate SDK for unnamed operation.\n\n"
                                        \o print(v.node)]]
        ELSE [ops |-> Append(SelectSeq(ops, LAMBDA o : o.node.name # v.node.name), rec),
              result |-> [kind |-> "null", value |-> ""]]

(***************************************************************************)
(* buildOperation (visitor.ts 75-100): the list and the outcome of a visit *)
(* v = [node, documentVariableName, operationType, operationResultType,    *)
(* operationVariablesTypes]; a throw is the outcome "error".               *)
(***************************************************************************)
buildOperation(prefix, ops, v) ==
    LET operationResultType == prefix \o v.operationResultType
        operationVariablesTypes == prefix \o v.operationVariablesTypes
    IN  IF ~IsSome(v.node.name)
        THEN [ops |-> ops,
              result |-> [kind |-> "error",
                          value |-> "Plugin 'generic-sdk' cannot generate SDK for unnamed operation.\n\n"
                                        \o print(v.node)]]
        ELSE [ops |-> Append(ops,
                             [node |-> v.node,
                              documentVariableName |-> v.documentVariableName,
                              operationType |-> v.operationType,
                              operationResultType |-> operationResultType,
                              operationVariablesTypes |-> operationVariablesTypes]),
              result |-> [kind |-> "null", value |-> ""]]

(***************************************************************************)
(* Inputs.                                                                 *)
(***************************************************************************)
mkNode(operation, name, directives, variableDefinitions) ==
    [operation |-> operation, name |-> name, directives |-> directives,
     variableDefinitions |-> variableDefinitions, selectionSet |-> <<"id">>]

mkVar(variable, kind, typeName, defaultValue) ==
    [variable |-> variable, type |-> [kind |-> kind, name |-> typeName],
     defaultValue |-> defaultValue]

mkVisit(node, base, operationType) ==
    [node |-> node,
     documentVariableName |-> base \o "Document",
     operationType |-> operationType,
     operationResultType |-> base \o operationType,
     operationVariablesTypes |-> base \o operationType \o "Variables"]

Live == [name |-> "live"]

\* the visits of the visitor's own specification: named and unnamed
\* operations of every kind
Visits ==
    { mkVisit(mkNode("query", Some("GetUser"), Some(<<>>),
                     Some(<<mkVar("id", NON_NULL_TYPE, "ID", None)>>)),
              "GetUser", "Query"),
      mkVisit(mkNode("query", Some("Feed"), Some(<<Live>>),
                     Some(<<mkVar("first", NAMED_TYPE, "Int", Some("10"))>>)),
              "Feed", "Query"),
      mkVisit(mkNode("subscription", Some("OnMessage"), None, None),
              "OnMessage", "Subscription"),
      mkVisit(mkNode("mutation", Some("AddUser"), Some(<<Live>>),
                     Some(<<mkVar("id", NON_NULL_TYPE, "ID", Some("1")),
                            mkVar("name", LIST_TYPE, "String", None)>>)),
              "AddUser", "Mutation"),
      mkVisit(mkNode("query", None, None, None), "Unnamed_1_", "Query"),
      mkVisit(mkNode("mutation", None, Some(<<Live>>),
                     Some(<<mkVar("id", NON_NULL_TYPE, "ID", None)>>)),
              "Unnamed_2_", "Mutation") }

\* operation nodes for the classification: every kind, with and without a
\* name, with every directive list up to MaxDirectives
DirectiveNames == {"live", "Live", "defer"}

DirectiveLists ==
    {None} \cup {Some(ds) : ds \in SeqsUpTo([name : DirectiveNames], MaxDirectives)}

ClassifyNodes ==
    {mkNode(k, n, ds, None) :
        k \in OperationKinds, n \in {None, Some("Op")}, ds \in DirectiveLists}

\* visits of one named query with every variable list up to MaxVars
VarNames == <<"a", "b", "c", "d", "e">>

VarShapes == [kind : {NAMED_TYPE, LIST_TYPE, NON_NULL_TYPE},
              defaultValue : {None, Some("1")}]

VariableLists ==
    {None} \cup
    {Some([i \in DOMAIN sh |->
              mkVar(VarNames[i], sh[i].kind, "Int", sh[i].defaultValue)]) :
        sh \in SeqsUpTo(VarShapes, MaxVars)}

VariableVisits ==
    {mkVisit(mkNode("query", Some("Find"), Some(<<>>), vds), "Find", "Query") :
        vds \in VariableLists}

(***************************************************************************)
(* State machine.                                                          *)
(***************************************************************************)
\* the state after new GenericSdkVisitor(schema, fragments, rawConfig)
\* (visitor.ts 44-73)
Init ==
    /\ rawConfig \in RawConfigs
    /\ config = parseConfig(rawConfig)
    /\ _additionalImports = constructorImports(config)
    /\ _externalImportPrefix = constructorPrefix(config)
    /\ _operationsToInclude = <<>>
    /\ call = [op |-> "new"]
    /\ result = [kind |-> "none", value |-> ""]

\* one call of buildOperation by the outer traversal
BuildOperation(v) ==
    LET r == buildOperation(_externalImportPrefix, _operationsToInclude, v)
    IN  /\ _operationsToInclude' = r.ops
        /\ result' = r.result
        /\ call' = [op |-> "buildOperation", arg |-> v]
        /\ UNCHANGED <<rawConfig, config, _additionalImports, _externalImportPrefix>>

\* a read of sdkContent that consumes the accumulated list
SdkContentDraining ==
    /\ result' = sdkContent(config, _operationsToInclude)
    /\ call' = [op |-> "sdkContent"]
    /\ _operationsToInclude' = <<>>
    /\ UNCHANGED <<rawConfig, config, _additionalImports, _externalImportPrefix>>

\* one read of the sdkContent getter
SdkContent ==
    /\ result' = sdkContent(config, _operationsToInclude)
    /\ call' = [op |-> "sdkContent"]
    /\ UNCHANGED <<rawConfig, config, _additionalImports, _externalImportPrefix,
                   _operationsToInclude>>

\* one application of isStreamOperation
IsStreamOperation(n) ==
    /\ result' = [kind |-> "bool", value |-> isStreamOperation(n)]
    /\ call' = [op |-> "isStreamOperation", arg |-> n]
    /\ UNCHANGED <<rawConfig, config, _additionalImports, _externalImportPrefix,
                   _operationsToInclude>>

Next ==
    \/ \E v \in Visits : Len(_operationsToInclude) < MaxOps /\ BuildOperation(v)
    \/ SdkContent

Spec == Init /\ [][Next]_vars

\* the classification applied to generated nodes
NextClassify == \E n \in ClassifyNodes : IsStreamOperation(n)

SpecClassify == Init /\ [][NextClassify]_vars

\* a visitor that visits one query with a generated variable list and
\* renders it
NextVariables ==
    \/ \E v \in VariableVisits : _operationsToInclude = <<>> /\ BuildOperation(v)
    \/ SdkContent

SpecVariables == Init /\ [][NextVariables]_vars

(***************************************************************************)
(* Properties.                                                             *)
(***************************************************************************)
\* what sdkContent emits for record i: the free-standing function and the
\* factory method, as lines of template pieces
emittedFunction(i) ==
    indentMultiline(actionLines(actionConfig(config, _operationsToInclude[i])), 2)

emittedMethod(i) == implLines(actionConfig(config, _operationsToInclude[i]))

rendered == call.op = "sdkContent"

\* the node carries at least one directive named exactly "live"
carriesLive(node) ==
    /\ IsSome(node.directives)
    /\ Len(SelectSeq(Val(node.directives), LAMBDA d : d.name = "live")) >= 1

\* C1: isStreamOperation is true for every subscription whatever its
\* directives, true for every query carrying a directive named exactly
\* "live", and false for every mutation (also one carrying @live) and for
\* every query without a directive named "live".
C1_StreamClassification ==
    call.op = "isStreamOperation" =>
        LET n == call.arg
        IN  /\ n.operation = "subscription" => result.value = TRUE
            /\ (n.operation = "query" /\ carriesLive(n)) => result.value = TRUE
            /\ n.operation = "mutation" => result.value = FALSE
            /\ (n.operation = "query" /\ ~carriesLive(n)) => result.value = FALSE

\* a mutation carrying @live has been classified as not a stream
C1_Witness ==
    /\ call.op = "isStreamOperation"
    /\ call.arg.operation = "mutation"
    /\ carriesLive(call.arg)
    /\ Len(Val(call.arg.directives)) = 2
    /\ result.value = FALSE

\* the node declares a variable that is non-null and has no default value
declaresRequiredVariable(node) ==
    /\ IsSome(node.variableDefinitions)
    /\ \E i \in 1..Len(Val(node.variableDefinitions)) :
           /\ Val(node.variableDefinitions)[i].type.kind = NON_NULL_TYPE
           /\ Val(node.variableDefinitions)[i].defaultValue = None

\* C2: sdkContent emits "variables?" for a record, in the free-standing
\* function and in the factory method, exactly when the operation declares
\* no variable that is non-null without a default value (no variables at
\* all, or every one nullable or defaulted); otherwise it emits "variables".
C2_VariablesOptional ==
    rendered =>
        \A i \in DOMAIN _operationsToInclude :
            LET mark == IF declaresRequiredVariable(_operationsToInclude[i].node)
                        THEN "" ELSE "?"
            IN  /\ SubSeq(emittedFunction(i)[1], 4, 6)
                       = <<"<C, E>(requester: Requester<C, E>, variables", mark, ": ">>
                /\ SubSeq(emittedMethod(i)[1], 2, 4) = <<"(variables", mark, ": ">>

\* a rendered operation with two variables, one of them non-null without a
\* default and the other defaulted
C2_Witness ==
    /\ rendered
    /\ Len(_operationsToInclude) = 1
    /\ LET vds == _operationsToInclude[1].node.variableDefinitions
       IN  /\ IsSome(vds)
           /\ Len(Val(vds)) = 2
           /\ Val(vds)[1].type.kind = NON_NULL_TYPE
           /\ IsSome(Val(vds)[1].defaultValue)
           /\ Val(vds)[2].type.kind = NON_NULL_TYPE
           /\ Val(vds)[2].defaultValue = None
    /\ emittedFunction(1)[1][5] = ""

\* C3: a visit of an operation without a name fails with an error whose
\* message carries the printed operation, returns no text, and leaves the
\* accumulated list as it was, whatever was visited before.
C3_UnnamedVisitFails ==
    [][(call'.op = "buildOperation" /\ call'.arg.node.name = None) =>
          /\ result'.kind = "error"
          /\ result'.value =
                 "Plugin 'generic-sdk' cannot generate SDK for unnamed operation.\n\n"
                     \o print(call'.arg.node)
          /\ _operationsToInclude' = _operationsToInclude]_vars

\* an unnamed operation with variables and a directive was refused after
\* another operation had been accumulated
C3_Witness ==
    /\ call.op = "buildOperation"
    /\ call.arg.node.name = None
    /\ call.arg.node.operation = "mutation"
    /\ result.kind = "error"
    /\ Len(_operationsToInclude) >= 1

\* C4: a read of sdkContent changes neither the accumulated list nor the
\* configuration nor the required imports, and a read that follows another
\* read with no visit in between returns the same text.
C4_RenderingPure ==
    [][call'.op = "sdkContent" =>
          /\ UNCHANGED <<_operationsToInclude, config, rawConfig,
                         _additionalImports, _externalImportPrefix>>
          /\ call.op = "sdkContent" => result' = result]_vars

\* a rendering of two accumulated operations
C4_Witness ==
    /\ rendered
    /\ result.kind = "text"
    /\ Len(_operationsToInclude) = 2
    /\ _operationsToInclude[1] # _operationsToInclude[2]

\* C5: the return type sdkContent emits for a record, in the signature and
\* the cast of the function and of the factory method, is Shape<Payload>:
\* Shape is Observable for a stream with usingObservableFrom set,
\* AsyncIterable for a stream without, Promise otherwise; Payload is
\* ExecutionResult<ResultType, E> under rawRequest, else the result type.
C5_ReturnType ==
    rendered =>
        \A i \in DOMAIN _operationsToInclude :
            LET o == _operationsToInclude[i]
                shape == IF ~isStreamOperation(o.node) THEN "Promise"
                         ELSE IF Truthy(config.usingObservableFrom) THEN "Observable"
                         ELSE "AsyncIterable"
                payload == IF config.rawRequest
                           THEN "ExecutionResult<" \o o.operationResultType \o ", E>"
                           ELSE o.operationResultType
                type == shape \o "<" \o payload \o ">"
            IN  /\ Concat(SubSeq(emittedFunction(i)[1], 8, 12))
                       = ", options?: C): " \o type \o " {"
                /\ Concat(SubSeq(emittedFunction(i)[2], 8, 12))
                       = ", variables, options) as " \o type \o ";"
                /\ Concat(SubSeq(emittedMethod(i)[1], 6, 10))
                       = ", options?: C): " \o type \o " {"
                /\ Concat(SubSeq(emittedMethod(i)[2], 3, 7))
                       = "(requester, variables, options) as " \o type \o ";"

\* a rendering, under rawRequest and with an observable module, of a stream
\* followed by a mutation carrying @live
C5_Witness ==
    /\ rendered
    /\ config.rawRequest
    /\ Truthy(config.usingObservableFrom)
    /\ Len(_operationsToInclude) = 2
    /\ isStreamOperation(_operationsToInclude[1].node)
    /\ _operationsToInclude[2].node.operation = "mutation"
    /\ emittedFunction(1)[1][9] = "Observable"
    /\ emittedFunction(2)[1][9] = "Promise"

\* the types the configuration requires from 'graphql'
requiredTypes ==
    (IF config.documentMode # DocumentMode_string THEN <<"DocumentNode">> ELSE <<>>)
        \o (IF config.rawRequest THEN <<"ExecutionResult">> ELSE <<>>)

\* C6 as stated: besides the usingObservableFrom module (once when set),
\* the constructor registers one type-only import per required type: zero,
\* one or two statements, each "import type".
C6_TypeOnlyImportPerType ==
    LET observable == IF rawConfig.usingObservableFrom \in {None, Some("")}
                      THEN <<>> ELSE <<Val(rawConfig.usingObservableFrom)>>
        types == [i \in DOMAIN requiredTypes |->
                     "import type { " \o requiredTypes[i] \o " } from 'graphql';"]
    IN  /\ config.rawRequest = (rawConfig.rawRequest = Some(TRUE))
        /\ _additionalImports = observable \o types

\* C6 (amended): the required imports are a function of the configuration
\* alone: the usingObservableFrom module once when it is set and not
\* otherwise, then at most one import statement from 'graphql' naming the
\* zero, one or two required types (DocumentNode unless documentMode is
\* string, ExecutionResult under rawRequest, both in the same statement);
\* the statement is "import type" under useTypeImports and a plain "import"
\* otherwise; nothing for string mode without rawRequest; rawRequest is
\* false when unspecified.
C6_RequiredImports ==
    LET observable == IF rawConfig.usingObservableFrom \in {None, Some("")}
                      THEN <<>> ELSE <<Val(rawConfig.usingObservableFrom)>>
        keyword == IF config.useTypeImports THEN "import type" ELSE "import"
        types == IF requiredTypes = <<>> THEN <<>>
                 ELSE <<keyword \o " { " \o Join(requiredTypes, ", ")
                            \o " } from 'graphql';">>
    IN  /\ config.rawRequest = (rawConfig.rawRequest = Some(TRUE))
        /\ _additionalImports = observable \o types
        /\ Len(SelectSeq(_additionalImports,
                         LAMBDA x : <<x>> = rawConfig.usingObservableFrom))
               = Len(observable)

\* a visitor constructed with an observable module, rawRequest and a
\* document-node mode, after a visit
C6_Witness ==
    /\ Truthy(rawConfig.usingObservableFrom)
    /\ rawConfig.rawRequest = Some(TRUE)
    /\ config.documentMode = DocumentMode_external
    /\ Len(_additionalImports) = 2
    /\ Len(_operationsToInclude) = 1

\* C7: the document reference in an emitted function body is the
\* document-variable name behind "Operations." when documentMode is
\* external and the bare name in every other mode; the Requester's doc
\* parameter is a string exactly in string mode, a DocumentNode otherwise.
C7_DocumentReferences ==
    /\ rendered =>
           \A i \in DOMAIN _operationsToInclude :
               SubSeq(emittedFunction(i)[2], 6, 8) =
                   <<">(",
                     IF config.documentMode = DocumentMode_external
                     THEN "Operations." \o _operationsToInclude[i].documentVariableName
                     ELSE _operationsToInclude[i].documentVariableName,
                     ", variables, options) as ">>
    /\ SubSeq(requesterLine(config), 1, 3) =
           <<"export type Requester<C = {}, E = unknown> = <R, V>(doc: ",
             IF config.documentMode = DocumentMode_string THEN "string" ELSE "DocumentNode",
             ", vars?: V, options?: C) => ">>

\* a rendering in external mode of an accumulated operation
C7_Witness ==
    /\ rendered
    /\ config.documentMode = DocumentMode_external
    /\ Len(_operationsToInclude) >= 1
    /\ emittedFunction(1)[2][7] = "Operations.GetUserDocument"

\* the Requester return type the configuration calls for
requesterReturnType ==
    LET payload == IF config.rawRequest THEN "ExecutionResult<R, E>" ELSE "R"
        stream == IF Truthy(config.usingObservableFrom)
                  THEN "Observable" ELSE "AsyncIterable"
    IN  "Promise<" \o payload \o "> | " \o stream \o "<" \o payload \o ">"

\* C8: the Requester type returns a promise or a stream of one payload; the
\* stream is Observable when usingObservableFrom is set and AsyncIterable
\* otherwise, whatever operations were accumulated, and the payload of both
\* is ExecutionResult<R, E> under rawRequest and R otherwise.
C8_RequesterReturnType ==
    /\ Concat(SubSeq(requesterLine(config), 4, 11)) = requesterReturnType
    /\ (rendered /\ _operationsToInclude = <<>>) =>
           result.value =
               "\n\nexport type Requester<C = {}, E = unknown> = <R, V>(doc: "
                   \o (IF config.documentMode = DocumentMode_string
                       THEN "string" ELSE "DocumentNode")
                   \o ", vars?: V, options?: C) => " \o requesterReturnType
                   \o "\nexport function getSdk<C, E>(requester: Requester<C, E>) {\n"
                   \o "  return {\n\n  };\n}\n"
                   \o "export type Sdk = ReturnType<typeof getSdk>;"

\* a rendering without any stream operation accumulated, under rawRequest
\* and with an observable module
C8_Witness ==
    /\ rendered
    /\ config.rawRequest
    /\ Truthy(config.usingObservableFrom)
    /\ _operationsToInclude # <<>>
    /\ \A i \in DOMAIN _operationsToInclude :
           ~isStreamOperation(_operationsToInclude[i].node)

\* C9: every accumulated record has a name, and it is not empty; a read of
\* sdkContent therefore never fails.
C9_RecordsNamed ==
    /\ \A i \in DOMAIN _operationsToInclude :
           /\ _operationsToInclude[i].node.name # None
           /\ Val(_operationsToInclude[i].node.name) # ""
    /\ rendered => result.kind = "text"

\* a rendering of a list that begins with a subscription
C9_Witness ==
    /\ rendered
    /\ result.kind = "text"
    /\ Len(_operationsToInclude) >= 1
    /\ _operationsToInclude[1].node.operation = "subscription"

\* the record a successful visit v appends
recordOf(v) ==
    LET prefix == IF config.importOperationTypesFrom \in {None, Some("")}
                  THEN "" ELSE Val(config.importOperationTypesFrom) \o "."
    IN  [node |-> v.node,
         documentVariableName |-> v.documentVariableName,
         operationType |-> v.operationType,
         operationResultType |-> prefix \o v.operationResultType,
         operationVariablesTypes |-> prefix \o v.operationVariablesTypes]

\* C10: the accumulated list is append-only: no step removes, reorders or
\* rewrites a record, a successful visit appends exactly its own record
\* (type names behind the external-import prefix) at the end, also for a
\* name visited before; and sdkContent emits one function and one factory
\* method per record, in the order of the visits.
C10_AppendOnly ==
    [][/\ Len(_operationsToInclude') >= Len(_operationsToInclude)
       /\ SubSeq(_operationsToInclude', 1, Len(_operationsToInclude))
              = _operationsToInclude
       /\ (call'.op = "buildOperation" /\ result'.kind = "null") =>
              _operationsToInclude' = Append(_operationsToInclude, recordOf(call'.arg))
       /\ call'.op = "sdkContent" =>
              LET acs == allPossibleActionsConfig(config', _operationsToInclude')
              IN  /\ Len(allPossibleActions(acs)) = Len(_operationsToInclude')
                  /\ Len(allPossibleActionsImpl(acs)) = Len(_operationsToInclude')
                  /\ \A i \in DOMAIN _operationsToInclude' :
                         /\ actionLines(acs[i])[1][2]
                                = Val(_operationsToInclude'[i].node.name)
                         /\ implLines(acs[i])[1][1]
                                = Val(_operationsToInclude'[i].node.name)]_vars

\* the same operation accumulated twice, and rendered
C10_Witness ==
    /\ rendered
    /\ Len(_operationsToInclude) = 2
    /\ _operationsToInclude[1] = _operationsToInclude[2]
    /\ _externalImportPrefix = "Types."

====
